---- MODULE Spec2Model ----
(***************************************************************************)
(* Payment document generation pipeline of the MC73 "Generator Uplatnica": *)
(* bank account codec (services/bankAccount), NBS IPS QR fetch             *)
(* (services/qrCode), and the PDF assembler (services/pdfGenerator) with   *)
(* the HTTP route that calls it (routes/billings); and the routes that     *)
(* write the building, the users and the billings, in the Express backend  *)
(* and in the Cloudflare worker.                                           *)
(***************************************************************************)
EXTENDS Integers, Sequences, FiniteSets, TLC

(***************************************************************************)
(* Bounds of the model                                                     *)
(***************************************************************************)
\* apartment numbers range over 1..MaxApt (the schema allows 1..99)
MaxApt == 4
\* bank account inputs carry at most MaxDigits digits (19 = one too many)
MaxDigits == 19
\* recipient names carry at most MaxText characters (the cap is 70)
MaxText == 72
\* each of two concurrent calls is handed at most MaxPair apartments
MaxPair == 4
\* at most MaxSends requests to /api/users/:id are sent in a behaviour
MaxSends == 2
\* the building has at most MaxFlats apartments when billings are generated
MaxFlats == 2
\* at most MaxBillingRequests requests to /api/billings are sent
MaxBillingRequests == 3

(***************************************************************************)
(* JavaScript values and string helpers.  A string is a sequence of        *)
(* one-character strings.                                                   *)
(***************************************************************************)
Digit == {"0", "1", "2", "3", "4", "5", "6", "7", "8", "9"}
DigitChar == <<"0", "1", "2", "3", "4", "5", "6", "7", "8", "9">>

JsStr(s) == [t |-> "string", s |-> s]
JsNull == [t |-> "null", s |-> <<>>]
JsNumber == [t |-> "number", s |-> <<>>]

Min(a, b) == IF a < b THEN a ELSE b
Max(a, b) == IF a > b THEN a ELSE b

\* String.prototype.slice(start, end): negative indices count from the end
Slice(s, start, end) ==
  LET n == Len(s)
      a == IF start < 0 THEN Max(n + start, 0) ELSE Min(start, n)
      b == IF end < 0 THEN Max(n + end, 0) ELSE Min(end, n)
  IN  IF a >= b THEN <<>> ELSE SubSeq(s, a + 1, b)

\* String.prototype.padStart(targetLength, "0")
PadEnd(s, targetLength) ==
  s \o [j \in 1..(Max(targetLength - Len(s), 0)) |-> "0"]
PadStart(s, targetLength) ==
  [j \in 1..(Max(targetLength - Len(s), 0)) |-> "0"] \o s

\* input.replace(/[-\s]/g, '')
IsSeparator(c) == c \in {"-", " ", "\t"}
StripSeparators(s) == SelectSeq(s, LAMBDA c : ~IsSeparator(c))

\* /^\d+$/.test(digits)
AllDigits(s) == Len(s) > 0 /\ \A j \in 1..Len(s) : s[j] \in Digit

(***************************************************************************)
(* services/bankAccount                                                    *)
(***************************************************************************)
BankError(msg) == [ok |-> FALSE, error |-> msg]

parseBankAccountAnyLength(input) ==
  IF input.t # "string" \/ input.s = <<>>
  THEN BankError("Bank account number is required")
  ELSE LET digits == StripSeparators(input.s) IN
    IF ~AllDigits(digits)
    THEN BankError("Bank account must contain only digits")
    ELSE IF Len(digits) >= 7
    THEN LET bank == Slice(digits, 0, 3)
             control == Slice(digits, -2, Len(digits))
             account == PadStart(Slice(digits, 3, -2), 13)
         IN [ok |-> TRUE,
             bank |-> bank,
             account |-> account,
             control |-> control,
             formatted |-> bank \o <<"-">> \o account \o <<"-">> \o control,
             digits |-> bank \o account \o control]
    ELSE BankError("Invalid bank account format. Must be 7-18 digits")

parseBankAccount(input) ==
  IF input.t # "string" \/ input.s = <<>>
  THEN BankError("Bank account number is required")
  ELSE LET digits == StripSeparators(input.s) IN
    IF ~AllDigits(digits)
    THEN BankError("Bank account must contain only digits")
    ELSE IF Len(digits) = 18
    THEN [ok |-> TRUE,
          bank |-> Slice(digits, 0, 3),
          account |-> Slice(digits, 3, 16),
          control |-> Slice(digits, 16, 18),
          formatted |-> Slice(digits, 0, 3) \o <<"-">> \o Slice(digits, 3, 16)
                          \o <<"-">> \o Slice(digits, 16, 18),
          digits |-> digits]
    ELSE IF Len(digits) >= 7 /\ Len(digits) < 18
    THEN LET bank == Slice(digits, 0, 3)
             control == Slice(digits, -2, Len(digits))
             accountPart == Slice(digits, 3, -2)
             account == PadStart(accountPart, 13)
         IN [ok |-> TRUE,
             bank |-> bank,
             account |-> account,
             control |-> control,
             formatted |-> bank \o <<"-">> \o account \o <<"-">> \o control,
             digits |-> bank \o account \o control]
    ELSE BankError("Invalid bank account format. Must be 7-18 digits")

\* a thrown error propagates out of the formatter unchanged
formatForDisplayUnpadded(bankAccount) ==
  LET parsed == parseBankAccount(bankAccount)
  IN  IF parsed.ok
      THEN [ok |-> TRUE,
            value |-> parsed.bank \o <<"-">>
                        \o SubSeq(parsed.account, 9, 13) \o <<"-">>
                        \o parsed.control]
      ELSE parsed

formatForDisplay(bankAccount) ==
  LET parsed == parseBankAccount(bankAccount)
  IN  IF parsed.ok THEN [ok |-> TRUE, value |-> parsed.formatted] ELSE parsed

formatForQRDashed(bankAccount) ==
  LET parsed == parseBankAccount(bankAccount)
  IN  IF parsed.ok THEN [ok |-> TRUE, value |-> parsed.formatted] ELSE parsed

formatForQR(bankAccount) ==
  LET parsed == parseBankAccount(bankAccount)
  IN  IF parsed.ok THEN [ok |-> TRUE, value |-> parsed.digits] ELSE parsed

\* try { parseBankAccount(input); return true } catch { return false }
isValidBankAccountTruthy(input) == input.t = "string" /\ input.s # <<>>
isValidBankAccount(input) == parseBankAccount(input).ok

(***************************************************************************)
(* services/qrCode                                                         *)
(***************************************************************************)
\* QR_GENERATE_SIZE of the PDF generator and DEFAULT_QR_SIZE of the service
QR_GENERATE_SIZE == 130
DEFAULT_QR_SIZE == 200

\* response.ok of the fetch API: status in 200..299
ResponseOk(status) == status >= 200 /\ status <= 299

\* What the network does with one request: either the transport fails
\* (fetch rejects with errmsg), or a response with a status arrives whose
\* body is text (an error page) or the image; reading the body can itself
\* fail (bodyOk = FALSE) with errmsg.
NetBehaviours ==
  [kind : {"response"}, status : {200, 201, 302, 400, 404, 500, 503},
   body : {"", "Bad Request", "Internal Server Error"}, bodyOk : BOOLEAN,
   errmsg : {"socket hang up"}]
  \cup
  [kind : {"transport"}, status : {0}, body : {""}, bodyOk : {FALSE},
   errmsg : {"ECONNREFUSED", "ETIMEDOUT", "getaddrinfo ENOTFOUND nbs.rs"}]

\* The payload sent to the NBS service (fields the pipeline depends on)
generateQRCodeData(params) ==
  LET formattedAccount == formatForQR(params.bankAccount)
  IN  IF ~formattedAccount.ok THEN formattedAccount
      ELSE [ok |-> TRUE,
            value |-> [K |-> "PR", V |-> "01", C |-> "1",
                       R |-> formattedAccount.value,
                       SF |-> "289",
                       payer |-> params.payer]]

Returned(v) == [ok |-> TRUE, value |-> v]
Thrown(msg) == [ok |-> FALSE, error |-> msg]

\* The PNG the service renders for a payload at a pixel size
QRImage(qrData, size) == [png |-> qrData.payer, size |-> size]

fetchQRCodeUnchecked(qrData, size, net) ==
  IF net.kind = "transport"
  THEN Thrown(<<"Failed to generate QR code: ", net.errmsg>>)
  ELSE IF ~net.bodyOk
       THEN Thrown(<<"Failed to generate QR code: ", net.errmsg>>)
       ELSE Returned(QRImage(qrData, size))

fetchQRCode(qrData, size, net) ==
  IF net.kind = "transport"
  THEN \* fetch() rejects; the catch block wraps the message
       Thrown(<<"Failed to generate QR code: ", net.errmsg>>)
  ELSE IF ~ResponseOk(net.status)
  THEN IF ~net.bodyOk
       THEN \* response.text() rejects inside the try block
            Thrown(<<"Failed to generate QR code: ", net.errmsg>>)
       ELSE Thrown(<<"Failed to generate QR code: ", "NBS API error: ",
                     ToString(net.status), " - ", net.body>>)
  ELSE IF ~net.bodyOk
       THEN \* response.buffer() rejects inside the try block
            Thrown(<<"Failed to generate QR code: ", net.errmsg>>)
       ELSE Returned(QRImage(qrData, size))

(***************************************************************************)
(* services/pdfGenerator and the route GET /api/billings/pdf/:year/:month  *)
(***************************************************************************)
VARIABLES
  apartments,        \* the apartment rows: the table read by the route, or
                     \* the list a direct caller hands in
  building,          \* the building row, or NoBuilding
  fontRegular,       \* fonts/NotoSans-Regular.ttf exists
  fontBold,          \* fonts/NotoSans-Bold.ttf exists
  via,               \* who called generatePaymentSlipsPDF: "route" | "direct"
  httpStatus,        \* status the route answered with (0 = no answer yet)
  pc,                \* position of the generatePaymentSlipsPDF call
  sortedApartments,  \* const sortedApartments
  k,                 \* next index Array.map hands to its callback (1-based)
  cb,                \* state of each map callback's promise
  qrCodes,           \* const qrCodes (result array of Promise.all)
  requests,          \* outbound POSTs issued, per apartment number
  fetchOutcome,      \* how each apartment's fetch ended: "none"|"ok"|"fail"
  i,                 \* loop variable of the drawing loop (0-based)
  pages,             \* pages of the PDFDocument, each a sequence of slips
  pageBreaks,        \* loop indices at which doc.addPage() was called
  result,            \* value the promise resolved with, or NoDoc
  error              \* value the promise rejected with, or NoError

genVars == <<apartments, building, fontRegular, fontBold, via, httpStatus, pc,
             sortedApartments, k, cb, qrCodes, requests, fetchOutcome, i,
             pages, pageBreaks, result, error>>

\* calls of the bank account codec on its own
VARIABLES
  baInput,           \* the argument (a JavaScript value)
  baOp,              \* the exported function that was called
  baResult           \* what it returned or threw

codecVars == <<baInput, baOp, baResult>>

\* calls of fetchQRCode on its own
VARIABLES
  fqPc,              \* "idle" | "inflight" | "settled"
  fqRequest,         \* payload and pixel size of the POST
  fqNet,             \* what the network did with the request
  fqResult           \* what fetchQRCode returned or threw

fetchVars == <<fqPc, fqRequest, fqNet, fqResult>>

\* what one slip of one billing period carries, in either build of the
\* program (the Express backend or the Cloudflare worker)
VARIABLES
  slVariant,         \* "backend" | "worker"
  slApartment,       \* the apartment row
  slBuilding,        \* the building row
  slMonth,           \* billing month
  slRef,             \* result of a call of generateReferenceNumber
  slQR,              \* what generatePaymentQRCode built for the slip
  slPrinted,         \* what drawPaymentSlip printed on the slip
  slBilling          \* the billing row POST /generate stored

slipVars == <<slVariant, slApartment, slBuilding, slMonth, slRef, slQR,
              slPrinted, slBilling>>

\* two calls of generatePaymentSlipsPDF in one process
VARIABLES
  gcList,            \* per call: the apartments argument
  gcPc,              \* per call: "idle" | "fetching" | "resolved"
  gcSorted,          \* per call: const sortedApartments
  gcQr,              \* per call: the results of its map callbacks
  gcOutcome,         \* per call: how each of its fetches ended
  gcCanvas,          \* the PDFDocument objects, by identity
  gcResult           \* per call: the pages its promise resolved with

pairVars == <<gcList, gcPc, gcSorted, gcQr, gcOutcome, gcCanvas, gcResult>>

\* the HTTP API over the database, in either deployment
VARIABLES
  deployment,        \* "backend" (Express, better-sqlite3) | "worker" (Hono, D1)
  bdStored,          \* building.bank_account of the row with id = 1
  bdBody,            \* the bank_account of the last PUT /api/building
  bdStatus           \* the status that PUT was answered with

bldVars == <<bdStored, bdBody, bdStatus>>

\* the users table and the requests to /api/users/:id in flight
VARIABLES
  usDb,              \* users: id -> row
  usToken,           \* per user: the claims signed into the token at login
  usReq,             \* per slot: a request and how far it has come
  usSent             \* requests sent so far

usrVars == <<usDb, usToken, usReq, usSent>>

\* the billings table and the requests to /api/billings in flight
VARIABLES
  blApts,            \* the ids of the rows of apartments
  blBuilding,        \* whether the building row exists
  blDb,              \* billings: the rows, each with the request that put it
  blReq              \* per request: what it asks and how far it has come

bilVars == <<blApts, blBuilding, blDb, blReq>>

apiVars == <<deployment, bldVars, usrVars, bilVars>>

NoBuilding == [bank_account |-> JsNull]
NoValue == [png |-> -1, size |-> 0]
Null == [png |-> 0, size |-> 0]
NoDoc == <<"no document">>
NoError == <<>>

AptNumbers == 1..MaxApt

\* bank accounts a building row can hold (TEXT NOT NULL, validated on PUT
\* but writable by seed data): short form, canonical form, unparsable
ShortAccount == <<"1","6","0","5","4","8","9","1","2","6","7">>
UnparsableAccount == <<"1","6","0","-","6","7">>
BuildingRows ==
  {[bank_account |-> JsStr(a)] : a \in {ShortAccount, UnparsableAccount}}

\* lists of distinct apartments (apartment_number is UNIQUE), in any order
AptLists ==
  {[j \in 1..Len(s) |-> [apartment_number |-> s[j]]] :
     s \in {t \in UNION {[1..n -> AptNumbers] : n \in 0..MaxApt} :
              \A a, b \in 1..Len(t) : a # b => t[a] # t[b]}}

\* the numbers of a set in ascending order
RECURSIVE Ascending(_)
Ascending(S) ==
  IF S = {} THEN <<>>
  ELSE LET m == CHOOSE x \in S : \A y \in S : x <= y
       IN  <<m>> \o Ascending(S \ {m})

\* SELECT * FROM apartments ORDER BY apartment_number
getAllApartments(rows) ==
  LET numbers == Ascending({rows[j].apartment_number : j \in 1..Len(rows)})
  IN  [j \in 1..Len(rows) |->
         CHOOSE r \in {rows[m] : m \in 1..Len(rows)} :
           r.apartment_number = numbers[j]]

\* (a, b) => a.apartment_number - b.apartment_number
compareDescending(a, b) == b.apartment_number - a.apartment_number
compareApartments(a, b) == a.apartment_number - b.apartment_number

\* Array.prototype.sort is stable: x goes after every element that does
\* not compare greater than it
RECURSIVE InsertSorted(_, _)
InsertSorted(sorted, x) ==
  IF sorted = <<>> THEN <<x>>
  ELSE IF compareApartments(Head(sorted), x) <= 0
       THEN <<Head(sorted)>> \o InsertSorted(Tail(sorted), x)
       ELSE <<x>> \o sorted

RECURSIVE SortApartments(_)
SortApartments(list) ==
  IF list = <<>> THEN <<>>
  ELSE InsertSorted(SortApartments(SubSeq(list, 1, Len(list) - 1)),
                    list[Len(list)])

\* generatePaymentQRCode up to the point where it calls fetchQRCode
paymentQRCodeData(apartment, bld) ==
  generateQRCodeData([bankAccount |-> bld.bank_account,
                      payer |-> apartment.apartment_number])

\* sortedApartments.map(async ...) calls the callbacks back to back: the
\* k-th callback is started without waiting for any earlier promise
mapDispatchSequential(cbs, idx) ==
  IF idx = 1 THEN TRUE ELSE cbs[idx - 1] = "done"
mapDispatch(cbs, idx) == TRUE

\* the synchronous part of the call is still running
MapRunning == pc = "map" /\ k <= Len(sortedApartments) /\ mapDispatch(cb, k)

\* Promise.all keeps each result at the index of its promise
storeAtFirstFree(qrs, idx, v) ==
  LET free == {j \in 1..Len(qrs) : qrs[j] = NoValue}
      first == CHOOSE j \in free : \A m \in free : j <= m
  IN  [qrs EXCEPT ![first] = v]
storeResult(qrs, idx, v) == [qrs EXCEPT ![idx] = v]

\* one fetch() per call of fetchQRCode
issueRequestTwice(reqs, apt) == [reqs EXCEPT ![apt] = @ + 2]
issueRequest(reqs, apt) == [reqs EXCEPT ![apt] = @ + 1]

\* if (i > 0 && slipIndex === 0) doc.addPage()
needsNewPageAlways(idx, slipIndex) == slipIndex = 0
needsNewPage(idx, slipIndex) == idx > 0 /\ slipIndex = 0

\* if (slipIndex < 2) { ... dash ... stroke }
drawsCutLineAlways(slipIndex) == TRUE
drawsCutLine(slipIndex) == slipIndex < 2

\* drawPaymentSlip: what ends up on the page, or the error it throws.
\* doc.font("Serbian-Bold") throws when the bold font was not registered;
\* formatForDisplay throws on an unparsable bank account.
drawPaymentSlipUnguarded(apartment, bld, slipIndex, qrCodeBuffer, boldRegistered) ==
  IF ~boldRegistered THEN Thrown(<<"ENOENT: Serbian-Bold">>)
  ELSE LET account == formatForDisplay(bld.bank_account) IN
    IF ~account.ok THEN Thrown(<<account.error>>)
    ELSE IF qrCodeBuffer = Null THEN Thrown(<<"Unknown image format.">>)
    ELSE Returned([apartment_number |-> apartment.apartment_number,
                   slipIndex |-> slipIndex,
                   account |-> account.value,
                   qr |-> qrCodeBuffer,
                   cutLine |-> drawsCutLine(slipIndex)])

drawPaymentSlipFallbackFont(apartment, bld, slipIndex, qrCodeBuffer, boldRegistered) ==
  LET account == formatForDisplay(bld.bank_account) IN
    IF ~account.ok THEN Thrown(<<account.error>>)
    ELSE Returned([apartment_number |-> apartment.apartment_number,
                   slipIndex |-> slipIndex,
                   account |-> account.value,
                   qr |-> IF qrCodeBuffer # Null THEN qrCodeBuffer ELSE Null,
                   cutLine |-> drawsCutLine(slipIndex)])

drawPaymentSlip(apartment, bld, slipIndex, qrCodeBuffer, boldRegistered) ==
  IF ~boldRegistered THEN Thrown(<<"ENOENT: Serbian-Bold">>)
  ELSE LET account == formatForDisplay(bld.bank_account) IN
    IF ~account.ok THEN Thrown(<<account.error>>)
    ELSE Returned([apartment_number |-> apartment.apartment_number,
                   slipIndex |-> slipIndex,
                   account |-> account.value,
                   qr |-> IF qrCodeBuffer # Null THEN qrCodeBuffer ELSE Null,
                   cutLine |-> drawsCutLine(slipIndex)])

GenInit ==
  /\ apartments \in AptLists
  /\ building \in BuildingRows \cup {NoBuilding}
  /\ fontRegular \in BOOLEAN
  /\ fontBold \in BOOLEAN
  /\ via = "nobody"
  /\ httpStatus = 0
  /\ pc = "idle"
  /\ sortedApartments = <<>>
  /\ k = 1
  /\ cb = <<>>
  /\ qrCodes = <<>>
  /\ requests = [a \in AptNumbers |-> 0]
  /\ fetchOutcome = [a \in AptNumbers |-> "none"]
  /\ i = 0
  /\ pages = <<>>
  /\ pageBreaks = {}
  /\ result = NoDoc
  /\ error = NoError

\* reject(err); a route that awaits the call answers 500 from its catch block
Reject(caller, err) ==
  /\ pc' = "rejected"
  /\ error' = err
  /\ httpStatus' = IF caller = "route" THEN 500 ELSE httpStatus

\* generatePaymentSlipsPDF from its first line up to the call of Array.map
GenerateBegin(caller, list) ==
  /\ via' = caller
  /\ IF ~fontRegular
     THEN /\ Reject(caller, <<"Font file not found">>)
          /\ UNCHANGED <<sortedApartments, k, cb, qrCodes, pages>>
     ELSE /\ pages' = << <<>> >>     \* new PDFDocument starts with one page
          /\ sortedApartments' = SortApartments(list)
          /\ k' = 1
          /\ cb' = [j \in 1..Len(list) |-> "notstarted"]
          /\ qrCodes' = [j \in 1..Len(list) |-> NoValue]
          /\ pc' = "map"
          /\ UNCHANGED <<httpStatus, error>>
  /\ UNCHANGED <<apartments, building, fontRegular, fontBold, requests,
                 fetchOutcome, i, pageBreaks, result>>

\* if (!building) return 400; if (apartments.length === 0) return 400
routeRefusesOnlyNoBuilding(bld, apts) == bld = NoBuilding
routeRefuses(bld, apts) == bld = NoBuilding \/ Len(apts) = 0

\* GET /api/billings/pdf/:year/:month
GetPdfRoute ==
  /\ UNCHANGED <<codecVars, fetchVars, slipVars, pairVars, apiVars>>
  /\ pc = "idle"
  /\ IF routeRefuses(building, getAllApartments(apartments))
     THEN /\ httpStatus' = 400
          /\ via' = "route"
          /\ pc' = "answered"
          /\ UNCHANGED <<apartments, building, fontRegular, fontBold,
                         sortedApartments, k, cb, qrCodes, requests,
                         fetchOutcome, i, pages, pageBreaks, result, error>>
     ELSE GenerateBegin("route", getAllApartments(apartments))

\* generatePaymentSlipsPDF called as the exported function, any list
CallGenerate ==
  /\ UNCHANGED <<codecVars, fetchVars, slipVars, pairVars, apiVars>>
  /\ pc = "idle"
  /\ building # NoBuilding
  /\ GenerateBegin("direct", apartments)

\* Array.map runs the callback for index k up to its first await
MapCallback ==
  /\ UNCHANGED <<codecVars, fetchVars, slipVars, pairVars, apiVars>>
  /\ MapRunning
  /\ LET apt == sortedApartments[k]
         qrData == paymentQRCodeData(apt, building)
     IN IF qrData.ok
        THEN /\ cb' = [cb EXCEPT ![k] = "inflight"]
             /\ requests' = issueRequest(requests, apt.apartment_number)
        ELSE /\ cb' = [cb EXCEPT ![k] = "threw"]
             /\ UNCHANGED requests
  /\ k' = k + 1
  /\ UNCHANGED <<apartments, building, fontRegular, fontBold, via, httpStatus,
                 pc, sortedApartments, qrCodes, fetchOutcome, i, pages,
                 pageBreaks, result, error>>

\* the fetch of callback j settles and the callback runs to its end
FetchSettles(j, net) ==
  /\ UNCHANGED <<codecVars, fetchVars, slipVars, pairVars, apiVars>>
  /\ pc = "map"
  /\ ~MapRunning
  /\ j \in 1..Len(cb)
  /\ cb[j] = "inflight"
  /\ LET apt == sortedApartments[j]
         r == fetchQRCode(paymentQRCodeData(apt, building).value,
                          QR_GENERATE_SIZE, net)
     IN /\ qrCodes' = storeResult(qrCodes, j, IF r.ok THEN r.value ELSE Null)
        /\ fetchOutcome' = [fetchOutcome EXCEPT ![apt.apartment_number] =
                              IF r.ok THEN "ok" ELSE "fail"]
  /\ cb' = [cb EXCEPT ![j] = "done"]
  /\ UNCHANGED <<apartments, building, fontRegular, fontBold, via, httpStatus,
                 pc, sortedApartments, k, requests, i, pages, pageBreaks,
                 result, error>>

\* generateQRCodeData threw inside callback j: its catch block returns null
CatchPayloadError(j) ==
  /\ UNCHANGED <<codecVars, fetchVars, slipVars, pairVars, apiVars>>
  /\ pc = "map"
  /\ ~MapRunning
  /\ j \in 1..Len(cb)
  /\ cb[j] = "threw"
  /\ qrCodes' = storeResult(qrCodes, j, Null)
  /\ cb' = [cb EXCEPT ![j] = "done"]
  /\ UNCHANGED <<apartments, building, fontRegular, fontBold, via, httpStatus,
                 pc, sortedApartments, k, requests, fetchOutcome, i, pages,
                 pageBreaks, result, error>>

\* await Promise.all(...) resumes once every promise is fulfilled
allSettled(cbs) == \A j \in 1..Len(cbs) : cbs[j] = "done"

PromiseAllResumes ==
  /\ UNCHANGED <<codecVars, fetchVars, slipVars, pairVars, apiVars>>
  /\ pc = "map"
  /\ k > Len(sortedApartments)
  /\ allSettled(cb)
  /\ pc' = "draw"
  /\ i' = 0
  /\ UNCHANGED <<apartments, building, fontRegular, fontBold, via, httpStatus,
                 sortedApartments, k, cb, qrCodes, requests, fetchOutcome,
                 pages, pageBreaks, result, error>>

\* one iteration of the drawing loop
DrawSlip ==
  /\ UNCHANGED <<codecVars, fetchVars, slipVars, pairVars, apiVars>>
  /\ pc = "draw"
  /\ i < Len(sortedApartments)
  /\ LET slipIndex == i % 3
         newPage == needsNewPage(i, slipIndex)
         canvas == IF newPage THEN Append(pages, <<>>) ELSE pages
         drawn == drawPaymentSlip(sortedApartments[i + 1], building, slipIndex,
                                  qrCodes[i + 1], fontBold)
     IN IF drawn.ok
        THEN /\ pages' = [canvas EXCEPT ![Len(canvas)] = Append(@, drawn.value)]
             /\ pageBreaks' = IF newPage THEN pageBreaks \cup {i} ELSE pageBreaks
             /\ i' = i + 1
             /\ UNCHANGED <<pc, error, httpStatus>>
        ELSE /\ Reject(via, drawn.error)
             /\ pages' = canvas
             /\ pageBreaks' = IF newPage THEN pageBreaks \cup {i} ELSE pageBreaks
             /\ UNCHANGED i
  /\ UNCHANGED <<apartments, building, fontRegular, fontBold, via,
                 sortedApartments, k, cb, qrCodes, requests, fetchOutcome,
                 result>>

\* doc.end(): the 'end' event resolves the promise; the route sends the PDF
FinishDocument ==
  /\ UNCHANGED <<codecVars, fetchVars, slipVars, pairVars, apiVars>>
  /\ pc = "draw"
  /\ i = Len(sortedApartments)
  /\ pc' = "resolved"
  /\ result' = pages
  /\ httpStatus' = IF via = "route" THEN 200 ELSE httpStatus
  /\ UNCHANGED <<apartments, building, fontRegular, fontBold, via,
                 sortedApartments, k, cb, qrCodes, requests, fetchOutcome, i,
                 pages, pageBreaks, error>>

\* the behaviours of the network the pipeline is run against
PipelineNets ==
  {n \in NetBehaviours :
     \/ n.kind = "transport" /\ n.errmsg = "ETIMEDOUT"
     \/ n.kind = "response" /\ n.status = 200 /\ n.body = "" /\ n.bodyOk
     \/ n.kind = "response" /\ n.status = 500 /\ n.body = "Internal Server Error"
          /\ n.bodyOk}

(***************************************************************************)
(* Calls of the bank account codec on its own                              *)
(***************************************************************************)

\* digit strings of length n: seed, seed+step, seed+2*step, ... (mod 10)
DigitString(n, seed, step) ==
  [j \in 1..n |-> DigitChar[((seed + step * (j - 1)) % 10) + 1]]

Styles == {"plain", "dashed", "spaced", "junk"}

\* the ways an account is written: bare digits, with the two dashes of the
\* display form, with blanks, or with a character that is no digit
Decorate(d, style) ==
  IF style = "dashed" /\ Len(d) >= 5
  THEN Slice(d, 0, 3) \o <<"-">> \o Slice(d, 3, -2) \o <<"-">>
         \o Slice(d, -2, Len(d))
  ELSE IF style = "spaced" /\ Len(d) >= 3
  THEN <<" ">> \o Slice(d, 0, 3) \o <<" ", "\t">> \o Slice(d, 3, Len(d))
  ELSE IF style = "junk"
  THEN Slice(d, 0, 2) \o <<"a">> \o Slice(d, 2, Len(d))
  ELSE d

CodecInputs ==
  {JsStr(Decorate(DigitString(n, seed, step), style)) :
     n \in 0..MaxDigits, seed \in 0..9, step \in {0, 1, 3},
     style \in Styles}
  \cup {JsNull, JsNumber, JsStr(<<"-">>), JsStr(<<" ", "-", "\t">>)}

CodecIdle ==
  /\ baOp = "none"
  /\ baResult = [ok |-> FALSE, error |-> "not called"]

CodecInit ==
  /\ baInput \in CodecInputs
  /\ CodecIdle

CodecParked ==
  /\ baInput = JsNull
  /\ CodecIdle

CallParseBankAccount ==
  /\ UNCHANGED <<genVars, fetchVars, slipVars, pairVars, apiVars>>
  /\ baOp = "none"
  /\ baOp' = "parseBankAccount"
  /\ baResult' = parseBankAccount(baInput)
  /\ UNCHANGED baInput

CallFormatForDisplay ==
  /\ UNCHANGED <<genVars, fetchVars, slipVars, pairVars, apiVars>>
  /\ baOp = "none"
  /\ baOp' = "formatForDisplay"
  /\ baResult' = formatForDisplay(baInput)
  /\ UNCHANGED baInput

CallFormatForQR ==
  /\ UNCHANGED <<genVars, fetchVars, slipVars, pairVars, apiVars>>
  /\ baOp = "none"
  /\ baOp' = "formatForQR"
  /\ baResult' = formatForQR(baInput)
  /\ UNCHANGED baInput

CallIsValidBankAccount ==
  /\ UNCHANGED <<genVars, fetchVars, slipVars, pairVars, apiVars>>
  /\ baOp = "none"
  /\ baOp' = "isValidBankAccount"
  /\ baResult' = Returned(isValidBankAccount(baInput))
  /\ UNCHANGED baInput

(***************************************************************************)
(* Calls of fetchQRCode on its own                                         *)
(***************************************************************************)

NoRequest == [qrData |-> [payer |-> 0], size |-> 0]
NoNet == [kind |-> "none", status |-> 0, body |-> "", bodyOk |-> FALSE,
          errmsg |-> ""]

FetchInit ==
  /\ fqPc = "idle"
  /\ fqRequest = NoRequest
  /\ fqNet = NoNet
  /\ fqResult = Thrown(<<"not called">>)

\* fetchQRCode(qrData, size) up to await fetch(...)
FetchCall(apt, size) ==
  /\ UNCHANGED <<genVars, codecVars, slipVars, pairVars, apiVars>>
  /\ fqPc = "idle"
  /\ fqPc' = "inflight"
  /\ fqRequest' = [qrData |-> generateQRCodeData(
                                [bankAccount |-> JsStr(ShortAccount),
                                 payer |-> apt]).value,
                   size |-> size]
  /\ UNCHANGED <<fqNet, fqResult>>

\* the request settles and fetchQRCode runs to its end
FetchReturn(net) ==
  /\ UNCHANGED <<genVars, codecVars, slipVars, pairVars, apiVars>>
  /\ fqPc = "inflight"
  /\ fqPc' = "settled"
  /\ fqNet' = net
  /\ fqResult' = fetchQRCode(fqRequest.qrData, fqRequest.size, net)
  /\ UNCHANGED fqRequest


(***************************************************************************)
(* The contents of one slip: reference number, amount and recipient, as    *)
(* printed by drawPaymentSlip, as put into the QR payload by               *)
(* generatePaymentQRCode / generateQRCodeData, and as stored by            *)
(* POST /api/billings/generate.                                            *)
(***************************************************************************)

\* body('apartment_number').isInt({ min: 1, max: 99 })
MaxAptNumber == 99
\* body('month').isInt({ min: 1, max: 12 })
MaxMonth == 12

Variants == {"backend", "worker"}

\* String(n) of a non-negative integer
RECURSIVE ToDecimal(_)
ToDecimal(n) ==
  IF n < 10 THEN <<DigitChar[n + 1]>>
  ELSE ToDecimal(n \div 10) \o <<DigitChar[(n % 10) + 1]>>

\* String.prototype.replace(c, r) with a string pattern: the first
\* occurrence only
ReplaceFirst(s, c, r) ==
  LET hits == {j \in 1..Len(s) : s[j] = c} IN
  IF hits = {} THEN s
  ELSE LET p == CHOOSE j \in hits : \A m \in hits : j <= m
       IN  SubSeq(s, 1, p - 1) \o r \o SubSeq(s, p + 1, Len(s))

\* amounts: a number of thousandths of a dinar below 10^21 dinars, the
\* number 10^21 (big), or null
Num(m) == [t |-> "number", big |-> FALSE, millis |-> m]
Huge == [t |-> "number", big |-> TRUE, millis |-> 0]
NullAmount == [t |-> "null", big |-> FALSE, millis |-> 0]

\* JavaScript truthiness of an amount: null and 0 are falsy
Truthy(x) == x.t = "number" /\ (x.big \/ x.millis # 0)

\* Number(amount): null converts to 0
Number(x) == IF x.t = "null" THEN Num(0) ELSE x

\* Number.prototype.toFixed(2): the nearest hundredth, the larger one on a
\* tie; from 10^21 on the result is the exponential form of String(x)
toFixed2(x) ==
  IF x.big THEN <<"1", "e", "+", "2", "1">>
  ELSE LET h == (x.millis + 5) \div 10
       IN  ToDecimal(h \div 100) \o <<".">> \o PadStart(ToDecimal(h % 100), 2)

\* generateReferenceNumber of the backend (pdfGenerator.js) and of the
\* worker (pdfGenerator.ts)
generateReferenceNumberUnpadded(apartmentNumber, month) ==
  ToDecimal(apartmentNumber) \o <<"/">> \o ToDecimal(month)
generateReferenceNumber(apartmentNumber, month) ==
  LET apt == PadStart(ToDecimal(apartmentNumber), 2)
      mon == PadStart(ToDecimal(month), 2)
  IN  apt \o <<"/">> \o mon

workerGenerateReferenceNumber(apartmentNumber, month) ==
  LET apt == PadStart(ToDecimal(apartmentNumber), 2)
      mon == PadStart(ToDecimal(month), 2)
  IN  apt \o <<"-">> \o mon

\* the reference number generatePaymentQRCode hands to generateQRCodeData
\* (the same lines in qrCode.js and qrCode.ts)
paymentReferenceNumber(apartment, month) ==
  LET apartmentNum == PadStart(ToDecimal(apartment.apartment_number), 2)
      monthNum == PadStart(ToDecimal(month), 2)
  IN  apartmentNum \o <<"/">> \o monthNum

\* const formattedReference of generateQRCodeData, backend and worker
formatReference(referenceNumber) == ReplaceFirst(referenceNumber, "/", <<>>)

workerFormatReference(referenceNumber) ==
  ReplaceFirst(ReplaceFirst(referenceNumber, "/", <<>>), "-", <<>>)

\* let recipientInfo of generateQRCodeData
formatRecipientInfoUncut(recipientName, recipientAddress) ==
  recipientName \o <<"\r", "\n">> \o recipientAddress
formatRecipientInfo(recipientName, recipientAddress) ==
  Slice(recipientName \o <<"\r", "\n">> \o recipientAddress, 0, 70)

\* const formattedAmount of generateQRCodeData
formatAmountPeriod(amount) == <<"R", "S", "D">> \o toFixed2(Number(amount))
formatAmount(amount) ==
  <<"R", "S", "D">> \o ReplaceFirst(toFixed2(Number(amount)), ".", <<",">>)

\* apartment.override_amount || building.default_amount, at its three sites
qrAmount(apartment, bld) ==
  IF Truthy(apartment.override_amount) THEN apartment.override_amount
  ELSE bld.default_amount

slipAmount(apartment, bld) ==
  IF Truthy(apartment.override_amount) THEN apartment.override_amount
  ELSE bld.default_amount

billingAmountNullish(apartment, bld) ==
  IF apartment.override_amount.t # "null" THEN apartment.override_amount
  ELSE bld.default_amount
billingAmount(apartment, bld) ==
  IF Truthy(apartment.override_amount) THEN apartment.override_amount
  ELSE bld.default_amount

NoRef == <<"not called">>
NoPayload == [ok |-> FALSE, error |-> "not built"]
NoPrint == [reference |-> <<>>, amount |-> NullAmount, printed |-> FALSE]
NoBilling == [reference_number |-> <<>>, amount |-> NullAmount, stored |-> FALSE]

\* text of n characters
Letter == <<"a", "b", "c", "d", "e">>
Text(n, seed) == [j \in 1..n |-> Letter[((seed + j) % 5) + 1]]

\* a call of the exported generateReferenceNumber
SlipGenerateReferenceNumber ==
  /\ UNCHANGED <<genVars, codecVars, fetchVars, pairVars, apiVars>>
  /\ slRef = NoRef
  /\ slRef' = IF slVariant = "backend"
              THEN generateReferenceNumber(slApartment.apartment_number, slMonth)
              ELSE workerGenerateReferenceNumber(slApartment.apartment_number,
                                                 slMonth)
  /\ UNCHANGED <<slVariant, slApartment, slBuilding, slMonth, slQR, slPrinted,
                 slBilling>>

\* generatePaymentQRCode up to the call of fetchQRCode: the parameters it
\* hands to generateQRCodeData and the payload that comes back
SlipQRData ==
  /\ UNCHANGED <<genVars, codecVars, fetchVars, pairVars, apiVars>>
  /\ slQR = NoPayload
  /\ LET amount == qrAmount(slApartment, slBuilding)
         referenceNumber == paymentReferenceNumber(slApartment, slMonth)
         base == generateQRCodeData(
                   [bankAccount |-> slBuilding.bank_account,
                    payer |-> slApartment.apartment_number])
     IN slQR' =
          IF ~base.ok THEN base
          ELSE [ok |-> TRUE,
                amount |-> amount,
                referenceNumber |-> referenceNumber,
                R |-> base.value.R,
                N |-> formatRecipientInfo(slBuilding.recipient_name,
                                          slBuilding.address),
                I |-> formatAmount(amount),
                RO |-> IF slVariant = "backend"
                       THEN formatReference(referenceNumber)
                       ELSE workerFormatReference(referenceNumber)]
  /\ UNCHANGED <<slVariant, slApartment, slBuilding, slMonth, slRef, slPrinted,
                 slBilling>>

\* drawPaymentSlip: the amount box and the reference box of the slip whose
\* QR code was requested before
SlipDraw ==
  /\ UNCHANGED <<genVars, codecVars, fetchVars, pairVars, apiVars>>
  /\ slQR # NoPayload
  /\ slPrinted = NoPrint
  /\ slPrinted' =
       [reference |->
          IF slVariant = "backend"
          THEN generateReferenceNumber(slApartment.apartment_number, slMonth)
          ELSE workerGenerateReferenceNumber(slApartment.apartment_number,
                                             slMonth),
        amount |-> slipAmount(slApartment, slBuilding),
        printed |-> TRUE]
  /\ UNCHANGED <<slVariant, slApartment, slBuilding, slMonth, slRef, slQR,
                 slBilling>>

\* POST /api/billings/generate: the row inserted for the apartment
SlipBilling ==
  /\ UNCHANGED <<genVars, codecVars, fetchVars, pairVars, apiVars>>
  /\ slBilling = NoBilling
  /\ slBilling' =
       [reference_number |->
          IF slVariant = "backend"
          THEN generateReferenceNumber(slApartment.apartment_number, slMonth)
          ELSE workerGenerateReferenceNumber(slApartment.apartment_number,
                                             slMonth),
        amount |-> billingAmount(slApartment, slBuilding),
        stored |-> TRUE]
  /\ UNCHANGED <<slVariant, slApartment, slBuilding, slMonth, slRef, slQR,
                 slPrinted>>

SlipIdle ==
  /\ slRef = NoRef
  /\ slQR = NoPayload
  /\ slPrinted = NoPrint
  /\ slBilling = NoBilling

DefaultBuilding ==
  [bank_account |-> JsStr(ShortAccount),
   default_amount |-> Num(3500000),
   recipient_name |-> Text(18, 0),
   address |-> Text(12, 2)]

SlipParked ==
  /\ slVariant = "backend"
  /\ slApartment = [apartment_number |-> 1, override_amount |-> NullAmount]
  /\ slBuilding = DefaultBuilding
  /\ slMonth = 1
  /\ SlipIdle

\* every apartment number and month the validators admit
ReferenceInit ==
  /\ slVariant \in Variants
  /\ slApartment \in [apartment_number : 1..MaxAptNumber,
                      override_amount : {NullAmount}]
  /\ slBuilding = DefaultBuilding
  /\ slMonth \in 1..MaxMonth
  /\ SlipIdle

\* amounts whose nearest hundredth does not depend on the binary expansion
\* (no thousandth digit 5 except the exact binary fractions), 10^21, null
Overrides ==
  {NullAmount, Num(0), Num(4), Num(999), Num(3500000), Num(3500500),
   Num(1250125), Huge}
Defaults == {Num(10), Num(3500000), Num(1200996), Huge}

NameLengths == {0, 1, 18} \cup (MaxText - 8)..MaxText
AddressLengths == {0, 3, 12}

PayloadInit ==
  /\ slVariant \in Variants
  /\ slApartment \in [apartment_number : {3}, override_amount : Overrides]
  /\ slBuilding \in
       [bank_account : {JsStr(ShortAccount)},
        default_amount : Defaults,
        recipient_name : {Text(n, 0) : n \in NameLengths},
        address : {Text(n, 2) : n \in AddressLengths}]
  /\ slMonth = 2
  /\ SlipIdle

(***************************************************************************)
(* Two calls of generatePaymentSlipsPDF in flight in one process.  Node    *)
(* runs each synchronous stretch of a call to completion: from the first   *)
(* line to await Promise.all (every fetch of the call is issued), then one *)
(* continuation per settled fetch, then the drawing loop and doc.end().    *)
(***************************************************************************)
Calls == {1, 2}

PairBuilding == [bank_account |-> JsStr(ShortAccount)]

\* the lists handed to the two calls: 1..n ascending or descending
Reverse(list) == [j \in 1..Len(list) |-> list[Len(list) + 1 - j]]
PairLists ==
  LET up(n) == [j \in 1..n |-> [apartment_number |-> j]]
  IN  {up(n) : n \in 0..MaxPair} \cup {Reverse(up(n)) : n \in 2..MaxPair}

\* const doc = new PDFDocument(...): every call draws on its own object
canvasShared(call) == 1
canvasOf(call) == call

\* for (let i = 0; i < sortedApartments.length; i++) { ... }
RECURSIVE drawLoop(_, _, _, _, _)
drawLoop(canvas, sorted, bld, qrs, idx) ==
  IF idx >= Len(sorted) THEN canvas
  ELSE LET slipIndex == idx % 3
           page == IF needsNewPage(idx, slipIndex)
                   THEN Append(canvas, <<>>) ELSE canvas
           drawn == drawPaymentSlip(sorted[idx + 1], bld, slipIndex,
                                    qrs[idx + 1], TRUE)
       IN  IF ~drawn.ok THEN page
           ELSE drawLoop([page EXCEPT ![Len(page)] = Append(@, drawn.value)],
                         sorted, bld, qrs, idx + 1)

PairIdle ==
  /\ gcPc = [c \in Calls |-> "idle"]
  /\ gcSorted = [c \in Calls |-> <<>>]
  /\ gcQr = [c \in Calls |-> <<>>]
  /\ gcOutcome = [c \in Calls |-> <<>>]
  /\ gcCanvas = [c \in Calls |-> <<>>]
  /\ gcResult = [c \in Calls |-> NoDoc]

PairParked ==
  /\ gcList = [c \in Calls |-> <<>>]
  /\ PairIdle

\* the first call is handed up to MaxPair apartments, the second a shorter
\* list
PairInit ==
  /\ gcList \in {f \in [Calls -> PairLists] : Len(f[2]) <= MaxPair - 2}
  /\ PairIdle

\* the call runs from its first line to await Promise.all(...)
PairBegin(c) ==
  /\ UNCHANGED <<genVars, codecVars, fetchVars, slipVars, apiVars>>
  /\ gcPc[c] = "idle"
  /\ gcPc' = [gcPc EXCEPT ![c] = "fetching"]
  /\ gcCanvas' = [gcCanvas EXCEPT ![canvasOf(c)] = << <<>> >>]
  /\ gcSorted' = [gcSorted EXCEPT ![c] = SortApartments(gcList[c])]
  /\ gcQr' = [gcQr EXCEPT ![c] = [j \in 1..Len(gcList[c]) |-> NoValue]]
  /\ gcOutcome' = [gcOutcome EXCEPT ![c] = [j \in 1..Len(gcList[c]) |-> "none"]]
  /\ UNCHANGED <<gcList, gcResult>>

\* one fetch of the call settles and its callback runs to its end
PairFetchSettles(c, j, net) ==
  /\ UNCHANGED <<genVars, codecVars, fetchVars, slipVars, apiVars>>
  /\ gcPc[c] = "fetching"
  /\ j \in 1..Len(gcQr[c])
  /\ gcQr[c][j] = NoValue
  /\ LET r == fetchQRCode(paymentQRCodeData(gcSorted[c][j], PairBuilding).value,
                          QR_GENERATE_SIZE, net)
     IN /\ gcQr' = [gcQr EXCEPT ![c] =
                      storeResult(@, j, IF r.ok THEN r.value ELSE Null)]
        /\ gcOutcome' = [gcOutcome EXCEPT ![c][j] = IF r.ok THEN "ok" ELSE "fail"]
  /\ UNCHANGED <<gcList, gcPc, gcSorted, gcCanvas, gcResult>>

\* Promise.all resumes the call: the drawing loop, doc.end(), resolve
PairDraw(c) ==
  /\ UNCHANGED <<genVars, codecVars, fetchVars, slipVars, apiVars>>
  /\ gcPc[c] = "fetching"
  /\ \A j \in 1..Len(gcQr[c]) : gcQr[c][j] # NoValue
  /\ LET drawn == drawLoop(gcCanvas[canvasOf(c)], gcSorted[c], PairBuilding,
                           gcQr[c], 0)
     IN /\ gcCanvas' = [gcCanvas EXCEPT ![canvasOf(c)] = drawn]
        /\ gcResult' = [gcResult EXCEPT ![c] = drawn]
  /\ gcPc' = [gcPc EXCEPT ![c] = "resolved"]
  /\ UNCHANGED <<gcList, gcSorted, gcQr, gcOutcome>>

\* the success and the failure of a fetch
PairNets ==
  {n \in PipelineNets : n.kind = "transport" \/ n.status = 200}

(***************************************************************************)
(* PUT /api/building                                                       *)
(***************************************************************************)
Deployments == {"backend", "worker"}

\* no row with id = 1
NoRow == [t |-> "none", s |-> <<>>]

\* the sample building of init-db.js; seed.sql inserts no building
SeedAccount ==
  JsStr(<<"1","6","0","-","0","0","0","0","0","0","0","5","4","8","9","1",
          "2","-","6","7">>)

InitialBuildings(d) == IF d = "backend" THEN {NoRow, SeedAccount} ELSE {NoRow}

\* a JSON number, by its decimal digits
JsNum(digits) == [t |-> "number", s |-> digits]

AccountLengths == {0, 6, 7, 11, MaxDigits - 2, MaxDigits - 1, MaxDigits}

\* the bank_account member of a request body
BankAccountBodies ==
  {JsStr(Decorate(DigitString(n, seed, 1), style)) :
     n \in AccountLengths, seed \in {1, 6}, style \in Styles}
  \cup {JsNull, JsNum(DigitString(11, 1, 1)), JsStr(<<"-">>), JsStr(<<" ">>)}

IsWhitespace(c) == c \in {" ", "\t"}

RECURSIVE TrimStart(_)
TrimStart(str) ==
  IF str # <<>> /\ IsWhitespace(Head(str)) THEN TrimStart(Tail(str)) ELSE str

RECURSIVE TrimEnd(_)
TrimEnd(str) ==
  IF str # <<>> /\ IsWhitespace(str[Len(str)])
  THEN TrimEnd(SubSeq(str, 1, Len(str) - 1))
  ELSE str

\* body('bank_account').trim(): the value as a string, without the
\* whitespace around it, written back to req.body
trimSanitizer(v) ==
  IF v.t = "null" THEN JsStr(<<>>) ELSE JsStr(TrimEnd(TrimStart(v.s)))

\* typeof value === 'string' && value.trim().length > 0
isNotEmpty(v) == v.t = "string" /\ TrimEnd(TrimStart(v.s)) # <<>>

\* the bank_account the handler reads from the body
bodyBankAccount(d, v) == IF d = "backend" THEN trimSanitizer(v) ELSE v

\* the validation of bank_account: notEmpty and the custom validator of the
\* backend, the three tests of the worker
bankAccountAccepted(d, v) ==
  IF d = "backend"
  THEN trimSanitizer(v).s # <<>> /\ isValidBankAccount(trimSanitizer(v))
  ELSE v.t # "null" /\ v.s # <<>> /\ isNotEmpty(v) /\ isValidBankAccount(v)

\* the placeholders of the upsert statement and the values the route binds
upsertPlaceholders(d) == IF d = "backend" THEN 4 ELSE 6
upsertValues == 6

formattedBankAccountRaw(bank_account) == Returned(bank_account.s)
formattedBankAccount(bank_account) == formatForDisplay(bank_account)

BldIdle ==
  /\ bdBody = JsNull
  /\ bdStatus = 0

BldInit ==
  /\ bdStored \in InitialBuildings(deployment)
  /\ BldIdle

BldParked ==
  /\ bdStored = NoRow
  /\ BldIdle

\* one PUT /api/building from the middleware to the answer
PutBuilding(body, asAdmin, othersValid) ==
  /\ UNCHANGED <<genVars, codecVars, fetchVars, slipVars, pairVars>>
  /\ UNCHANGED <<deployment, usrVars, bilVars>>
  /\ bdBody' = body
  /\ IF ~asAdmin
     THEN bdStatus' = 403 /\ UNCHANGED bdStored
     ELSE IF ~(bankAccountAccepted(deployment, body) /\ othersValid)
     THEN bdStatus' = 400 /\ UNCHANGED bdStored
     ELSE LET formatted ==
                formattedBankAccount(bodyBankAccount(deployment, body))
          IN  IF ~formatted.ok \/ upsertPlaceholders(deployment) # upsertValues
              THEN bdStatus' = 500 /\ UNCHANGED bdStored
              ELSE bdStatus' = 200 /\ bdStored' = JsStr(formatted.value)

(***************************************************************************)
(* /api/users/:id: authenticate, requireAdmin, PUT and DELETE.  The        *)
(* backend runs a handler without interruption from one await to the next  *)
(* (better-sqlite3 is synchronous, bcrypt.hash is awaited); the worker     *)
(* awaits every D1 call, so other requests run between any two of them.    *)
(***************************************************************************)
\* the default admin and a second account
Users == {1, 2}
Slots == {1, 2}

NoUser ==
  [present |-> FALSE, email |-> 0, name |-> "", is_admin |-> FALSE,
   is_user |-> FALSE, password_hash |-> ""]

\* the rows after init-db / seed.sql and the creation of the other users:
\* user u has email u; user 1 is the default admin
InitialUsers ==
  {db \in [Users -> [present : {TRUE}, email : Users, name : {"old"},
                     is_admin : BOOLEAN, is_user : {TRUE},
                     password_hash : {"old"}]] :
     /\ \A u \in Users : db[u].email = u
     /\ db[1].is_admin}

\* values of is_admin / is_user in a JSON body
Undefined == "undefined"
BodyFlags == {Undefined, "true", "false", "0"}
JsTruthy(flag) == flag = "true"

NoPassword == ""

\* request bodies: a new email and name with the roles left out, a
\* promotion that changes every field and the password, and two demotions
\* (is_admin false, is_admin 0)
UserBodies ==
  { [email |-> 0, name |-> "new", password |-> NoPassword,
     is_admin |-> Undefined, is_user |-> Undefined],
    [email |-> 0, name |-> "new", password |-> "new",
     is_admin |-> "true", is_user |-> "false"],
    [email |-> 1, name |-> "new", password |-> NoPassword,
     is_admin |-> "false", is_user |-> Undefined],
    [email |-> 1, name |-> "new", password |-> NoPassword,
     is_admin |-> "0", is_user |-> Undefined] }

NoBody ==
  [email |-> 0, name |-> "", password |-> NoPassword,
   is_admin |-> Undefined, is_user |-> Undefined]

IdleRequest ==
  [pc |-> "idle", sender |-> 1, method |-> "PUT", target |-> 1,
   body |-> NoBody, reqUser |-> NoUser, user |-> NoUser, status |-> 0,
   answer |-> "", goneAtSend |-> FALSE, neverAdmin |-> FALSE,
   changed |-> FALSE, beyondOwnProfile |-> FALSE,
   changedAdminFlag |-> FALSE]

\* SELECT COUNT(*) FROM users WHERE is_admin = 1
adminCount(db) == Cardinality({u \in Users : db[u].present /\ db[u].is_admin})

\* getUserByEmail(email) finds a row other than id
emailTaken(db, email, id) ==
  \E u \in Users : u # id /\ db[u].present /\ db[u].email = email

\* UPDATE users SET email, name, is_admin, is_user WHERE id: no row, no
\* change; email is UNIQUE
updateUser(db, id, email, name, isAdmin, isUser) ==
  IF ~db[id].present THEN [ok |-> TRUE, db |-> db]
  ELSE IF emailTaken(db, email, id) THEN [ok |-> FALSE, db |-> db]
  ELSE [ok |-> TRUE,
        db |-> [db EXCEPT ![id].email = email, ![id].name = name,
                          ![id].is_admin = isAdmin, ![id].is_user = isUser]]

updateUserPassword(db, id, hash) ==
  IF db[id].present THEN [db EXCEPT ![id].password_hash = hash] ELSE db

deleteUser(db, id) == [db EXCEPT ![id] = NoUser]

\* the user attached to the request: the row read from the database
requestUserFromToken(row, claims) == claims
requestUser(row, claims) == row

\* the test in front of the count of admins in PUT
demotesAdmin(d, user, is_admin) ==
  IF d = "backend"
  THEN user.is_admin /\ ~JsTruthy(is_admin)
  ELSE user.is_admin /\ is_admin = "false"

\* is_admin !== undefined ? (is_admin ? 1 : 0) : user.is_admin
flagToStore(flag, kept) == IF flag # Undefined THEN JsTruthy(flag) ELSE kept

\* what a request has changed in the table beyond the name and the
\* password of its sender
BeyondOwnProfile(sender, before, after) ==
  \E u \in Users :
    /\ before[u] # after[u]
    /\ \/ u # sender
       \/ [before[u] EXCEPT !.name = after[u].name,
                            !.password_hash = after[u].password_hash]
            # after[u]

\* the answer; of an answered request only what was asked and what came of
\* it is kept
Answer(r, status, answer) ==
  [r EXCEPT !.pc = "done", !.status = status, !.answer = answer,
            !.user = NoUser,
            !.reqUser = [NoUser EXCEPT !.is_admin = r.reqUser.is_admin],
            !.body = [NoBody EXCEPT !.is_admin = r.body.is_admin]]

Wrote(r, before, after) ==
  [r EXCEPT !.changed = @ \/ before # after,
            !.beyondOwnProfile = @ \/ BeyondOwnProfile(r.sender, before, after),
            !.changedAdminFlag =
               @ \/ before[r.target].is_admin # after[r.target].is_admin]

Outcome(r, db) == [req |-> r, db |-> db]

\* of the row a handler has read it uses the email and the two roles
Fields(row) == [row EXCEPT !.name = "", !.password_hash = ""]

\* the statements that run behind an awaited bcrypt hash
AfterHash == {"selfPassword", "password"}

\* one database call of a handler, with the code around it
step(d, r, db) ==
  LET id == r.target
      b == r.body
  IN
  CASE r.pc = "handler" ->
         LET user == Fields(db[id])
             isSelf == r.sender = id
             isAdmin == r.reqUser.is_admin
         IN  IF ~user.present
             THEN Outcome(Answer(r, 404, "notFound"), db)
             ELSE IF r.method = "DELETE"
             THEN IF isSelf
                  THEN Outcome(Answer(r, 400, "self"), db)
                  ELSE Outcome([r EXCEPT !.user = user,
                                  !.pc = IF user.is_admin THEN "count"
                                         ELSE "delete"], db)
             ELSE IF ~isAdmin /\ ~isSelf
             THEN Outcome(Answer(r, 403, "forbidden"), db)
             ELSE IF ~isAdmin
             THEN Outcome([r EXCEPT !.user = user,
                             !.pc = IF b.password # NoPassword
                                    THEN "selfPassword"
                                    ELSE "selfUpdate"], db)
             ELSE Outcome([r EXCEPT !.user = user, !.pc = "emailCheck"], db)
    [] r.pc = "selfPassword" ->
         LET after == updateUserPassword(db, id, b.password)
         IN  Outcome([Wrote(r, db, after) EXCEPT !.pc = "selfUpdate"], after)
    [] r.pc = "selfUpdate" ->
         LET up == updateUser(db, id, r.user.email, b.name,
                              r.user.is_admin, r.user.is_user)
         IN  IF ~up.ok
             THEN Outcome(Answer(r, 500, "error"), db)
             ELSE Outcome([Wrote(r, db, up.db) EXCEPT !.pc = "selfGet"],
                          up.db)
    [] r.pc = "selfGet" ->
         IF db[id].present THEN Outcome(Answer(r, 200, "ok"), db)
         ELSE IF d = "backend" THEN Outcome(Answer(r, 500, "error"), db)
         ELSE Outcome([r EXCEPT !.pc = "emailCheck"], db)
    [] r.pc = "emailCheck" ->
         IF emailTaken(db, b.email, id)
         THEN Outcome(Answer(r, 400, "emailTaken"), db)
         ELSE Outcome([r EXCEPT !.pc =
                         IF demotesAdmin(d, r.user, b.is_admin)
                         THEN "count" ELSE "update"], db)
    [] r.pc = "count" ->
         IF adminCount(db) <= 1
         THEN Outcome(Answer(r, 400, "lastAdmin"), db)
         ELSE Outcome([r EXCEPT !.pc = IF r.method = "DELETE"
                                       THEN "delete" ELSE "update"], db)
    [] r.pc = "update" ->
         LET up == updateUser(db, id, b.email, b.name,
                              flagToStore(b.is_admin, r.user.is_admin),
                              flagToStore(b.is_user, r.user.is_user))
         IN  IF ~up.ok
             THEN Outcome(Answer(r, 500, "error"), db)
             ELSE Outcome([Wrote(r, db, up.db) EXCEPT !.pc =
                             IF b.password # NoPassword
                             THEN "password" ELSE "finalGet"], up.db)
    [] r.pc = "password" ->
         LET after == updateUserPassword(db, id, b.password)
         IN  Outcome([Wrote(r, db, after) EXCEPT !.pc = "finalGet"], after)
    [] r.pc = "finalGet" ->
         IF db[id].present THEN Outcome(Answer(r, 200, "ok"), db)
         ELSE Outcome(Answer(r, 500, "error"), db)
    [] r.pc = "delete" ->
         LET after == deleteUser(db, id)
         IN  Outcome(Answer(Wrote(r, db, after), 200, "ok"), after)

\* the backend handler from where it stands to its next await or answer
RECURSIVE runToAwait(_, _, _)
runToAwait(r, db, resumed) ==
  IF r.pc = "done" \/ (~resumed /\ r.pc \in AfterHash)
  THEN Outcome(r, db)
  ELSE LET n == step("backend", r, db)
       IN  runToAwait(n.req, n.db, FALSE)

InFlight(r) == r.pc \notin {"idle", "done"}
InHandler(r) == r.pc \notin {"idle", "sent", "done"}

\* whether the sender of a request in flight has been an admin since it
\* was sent
Track(reqs, db) ==
  [s \in Slots |->
     IF InFlight(reqs[s])
     THEN [reqs[s] EXCEPT !.neverAdmin =
             @ /\ ~(db[reqs[s].sender].present /\ db[reqs[s].sender].is_admin)]
     ELSE reqs[s]]

UsrIdle ==
  /\ usReq = [s \in Slots |-> IdleRequest]
  /\ usSent = 0

\* every user has logged in and holds an unexpired token
UsrInit ==
  /\ usDb \in InitialUsers
  /\ usToken = usDb
  /\ UsrIdle

UsrParked ==
  /\ usDb = [u \in Users |-> NoUser]
  /\ usToken = usDb
  /\ UsrIdle

\* a client sends PUT or DELETE /api/users/:target with its token
SendRequest(s, sender, method, target, body) ==
  /\ UNCHANGED <<genVars, codecVars, fetchVars, slipVars, pairVars>>
  /\ UNCHANGED <<deployment, bldVars, usDb, usToken, bilVars>>
  /\ usSent < MaxSends
  /\ ~InFlight(usReq[s])
  /\ \A t \in Slots : t < s => InFlight(usReq[t])
  /\ method = "DELETE" <=> body = NoBody
  /\ usSent' = usSent + 1
  /\ usReq' = [usReq EXCEPT ![s] =
       [IdleRequest EXCEPT
          !.pc = "sent", !.sender = sender, !.method = method,
          !.target = target, !.body = body,
          !.goneAtSend = ~usDb[sender].present,
          !.neverAdmin = ~(usDb[sender].present /\ usDb[sender].is_admin)]]

\* authenticate and, on DELETE, requireAdmin
Authenticate(s) ==
  /\ UNCHANGED <<genVars, codecVars, fetchVars, slipVars, pairVars>>
  /\ UNCHANGED <<deployment, bldVars, usDb, usToken, usSent, bilVars>>
  /\ usReq[s].pc = "sent"
  /\ LET r == usReq[s]
         user == Fields(requestUser(usDb[r.sender], usToken[r.sender]))
     IN  usReq' = [usReq EXCEPT ![s] =
           IF ~user.present THEN Answer(r, 401, "noUser")
           ELSE IF r.method = "DELETE" /\ ~user.is_admin
           THEN Answer(r, 403, "adminOnly")
           ELSE [r EXCEPT !.pc = "handler", !.reqUser = user]]

\* the backend: one synchronous stretch of a handler
BackendRun(s) ==
  /\ UNCHANGED <<genVars, codecVars, fetchVars, slipVars, pairVars>>
  /\ UNCHANGED <<deployment, bldVars, usToken, usSent, bilVars>>
  /\ deployment = "backend"
  /\ InHandler(usReq[s])
  /\ LET o == runToAwait(usReq[s], usDb, TRUE)
     IN  /\ usDb' = o.db
         /\ usReq' = Track([usReq EXCEPT ![s] = o.req], o.db)

\* the worker: one awaited D1 call of a handler
WorkerStep(s) ==
  /\ UNCHANGED <<genVars, codecVars, fetchVars, slipVars, pairVars>>
  /\ UNCHANGED <<deployment, bldVars, usToken, usSent, bilVars>>
  /\ deployment = "worker"
  /\ InHandler(usReq[s])
  /\ LET o == step("worker", usReq[s], usDb)
     IN  /\ usDb' = o.db
         /\ usReq' = Track([usReq EXCEPT ![s] = o.req], o.db)

(***************************************************************************)
(* POST /api/billings/generate and DELETE /api/billings/:year/:month.  The *)
(* backend handlers contain no await; the worker awaits every D1 call.     *)
(* The building row and the apartments do not change while billings are    *)
(* generated, so the handler's reads of them are taken with its check.     *)
(***************************************************************************)
\* two months of one year
Periods == {1, 2}
BillingRequests == 1..MaxBillingRequests

IdleBilling ==
  [pc |-> "idle", kind |-> "generate", period |-> 1, next |-> 0,
   status |-> 0, sentWith |-> {}, deleted |-> FALSE]

\* getBillingsByMonth(year, month)
getBillingsByMonth(db, period) == {row \in db : row.period = period}

\* UNIQUE(apartment_id, billing_month, billing_year)
uniqueNotEnforced(db, apt, period) == FALSE
uniqueViolated(db, apt, period) ==
  \E row \in db : row.apartment_id = apt /\ row.period = period

\* INSERT INTO billings: the row, or the constraint error
insertBilling(db, apt, period, by) ==
  IF uniqueViolated(db, apt, period)
  THEN [ok |-> FALSE, db |-> db]
  ELSE [ok |-> TRUE,
        db |-> db \cup {[apartment_id |-> apt, period |-> period, by |-> by]}]

deleteBillingsByMonth(db, period) == {row \in db : row.period # period}

\* the apartments still to bill, in the order of getAllApartments
nextApartment(apts, after) ==
  IF \E a \in apts : a > after
  THEN CHOOSE a \in apts : a > after /\ \A b \in apts : b > after => a <= b
  ELSE 0

BillOutcome(r, db) == [req |-> r, db |-> db]

BillAnswer(r, status) == [r EXCEPT !.pc = "done", !.status = status]

\* one database call of a handler with the code behind it; id is the
\* request
billingStep(id, r, db, apts, hasBuilding) ==
  CASE r.kind = "delete" ->
         BillOutcome(BillAnswer(r, 200), deleteBillingsByMonth(db, r.period))
    [] r.kind = "generate" /\ r.pc = "handler" ->
         IF ~hasBuilding \/ apts = {}
            \/ getBillingsByMonth(db, r.period) # {}
         THEN BillOutcome(BillAnswer(r, 400), db)
         ELSE BillOutcome([r EXCEPT !.pc = "insert",
                             !.next = nextApartment(apts, 0)], db)
    [] r.kind = "generate" /\ r.pc = "insert" ->
         LET ins == insertBilling(db, r.next, r.period, id)
             more == nextApartment(apts, r.next)
         IN  IF ~ins.ok THEN BillOutcome(BillAnswer(r, 500), db)
             ELSE IF more = 0 THEN BillOutcome(BillAnswer(r, 201), ins.db)
             ELSE BillOutcome([r EXCEPT !.next = more], ins.db)

\* the backend handler from its first line to its answer
RECURSIVE billingRun(_, _, _, _, _)
billingRun(id, r, db, apts, hasBuilding) ==
  IF r.pc = "done" THEN BillOutcome(r, db)
  ELSE LET n == billingStep(id, r, db, apts, hasBuilding)
       IN  billingRun(id, n.req, n.db, apts, hasBuilding)

BillInFlight(r) == r.pc \notin {"idle", "done"}

\* a DELETE of a month has run while a request for that month was in flight
NoteDelete(reqs, id) ==
  IF reqs[id].kind = "delete"
  THEN [j \in BillingRequests |->
          IF j # id /\ BillInFlight(reqs[j]) /\ reqs[j].period = reqs[id].period
          THEN [reqs[j] EXCEPT !.deleted = TRUE]
          ELSE reqs[j]]
  ELSE reqs

BilIdle ==
  /\ blDb = {}
  /\ blReq = [j \in BillingRequests |-> IdleBilling]

BilInit ==
  /\ blApts \in {1..n : n \in 0..MaxFlats}
  /\ blBuilding \in BOOLEAN
  /\ BilIdle

BilParked ==
  /\ blApts = {}
  /\ blBuilding = FALSE
  /\ BilIdle

\* an admin sends a generate or a delete request for a month
SendBilling(id, kind, period) ==
  /\ UNCHANGED <<genVars, codecVars, fetchVars, slipVars, pairVars>>
  /\ UNCHANGED <<deployment, bldVars, usrVars, blApts, blBuilding, blDb>>
  /\ blReq[id].pc = "idle"
  /\ \A j \in BillingRequests : j < id => blReq[j].pc # "idle"
  /\ blReq' = [blReq EXCEPT ![id] =
       [IdleBilling EXCEPT
          !.pc = "handler", !.kind = kind, !.period = period,
          !.sentWith = {j \in BillingRequests : BillInFlight(blReq[j])}]]

\* the backend: the whole handler
BackendBilling(id) ==
  /\ UNCHANGED <<genVars, codecVars, fetchVars, slipVars, pairVars>>
  /\ UNCHANGED <<deployment, bldVars, usrVars, blApts, blBuilding>>
  /\ deployment = "backend"
  /\ BillInFlight(blReq[id])
  /\ LET o == billingRun(id, blReq[id], blDb, blApts, blBuilding)
     IN  /\ blDb' = o.db
         /\ blReq' = NoteDelete([blReq EXCEPT ![id] = o.req], id)

\* the worker: one awaited D1 call of a handler
WorkerBilling(id) ==
  /\ UNCHANGED <<genVars, codecVars, fetchVars, slipVars, pairVars>>
  /\ UNCHANGED <<deployment, bldVars, usrVars, blApts, blBuilding>>
  /\ deployment = "worker"
  /\ BillInFlight(blReq[id])
  /\ LET o == billingStep(id, blReq[id], blDb, blApts, blBuilding)
     IN  /\ blDb' = o.db
         /\ blReq' = NoteDelete([blReq EXCEPT ![id] = o.req], id)

\* every API model at rest
ApiParked ==
  /\ deployment = "backend"
  /\ BldParked
  /\ UsrParked
  /\ BilParked

(***************************************************************************)
(* Specifications                                                          *)
(***************************************************************************)
vars == <<genVars, codecVars, fetchVars, slipVars, pairVars, apiVars>>

GenParked ==
  /\ apartments = <<>>
  /\ building = NoBuilding
  /\ fontRegular = TRUE
  /\ fontBold = TRUE
  /\ via = "nobody"
  /\ httpStatus = 0
  /\ pc = "idle"
  /\ sortedApartments = <<>>
  /\ k = 1
  /\ cb = <<>>
  /\ qrCodes = <<>>
  /\ requests = [a \in AptNumbers |-> 0]
  /\ fetchOutcome = [a \in AptNumbers |-> "none"]
  /\ i = 0
  /\ pages = <<>>
  /\ pageBreaks = {}
  /\ result = NoDoc
  /\ error = NoError

\* one PDF request, or one direct call of generatePaymentSlipsPDF
Init == GenInit /\ CodecParked /\ FetchInit /\ SlipParked /\ PairParked /\ ApiParked

GenNext ==
  \/ GetPdfRoute
  \/ CallGenerate
  \/ MapCallback
  \/ \E j \in 1..MaxApt + 1, net \in PipelineNets : FetchSettles(j, net)
  \/ \E j \in 1..MaxApt + 1 : CatchPayloadError(j)
  \/ PromiseAllResumes
  \/ DrawSlip
  \/ FinishDocument

Next == GenNext

Spec == Init /\ [][Next]_vars

\* the same request with the event loop running every ready continuation
\* and every fetch settling
LiveInit ==
  /\ GenInit /\ CodecParked /\ FetchInit /\ SlipParked /\ PairParked /\ ApiParked
  /\ SortApartments(apartments) = apartments

SpecLive ==
  /\ LiveInit
  /\ [][Next]_vars
  /\ WF_vars(MapCallback)
  /\ WF_vars(\E j \in 1..MaxApt + 1, net \in PipelineNets : FetchSettles(j, net))
  /\ WF_vars(\E j \in 1..MaxApt + 1 : CatchPayloadError(j))
  /\ WF_vars(PromiseAllResumes)
  /\ WF_vars(DrawSlip)
  /\ WF_vars(FinishDocument)

\* calls of the codec's exported functions
CodecSpecInit == GenParked /\ CodecInit /\ FetchInit /\ SlipParked /\ PairParked /\ ApiParked

CodecNext ==
  \/ CallParseBankAccount
  \/ CallFormatForDisplay
  \/ CallFormatForQR
  \/ CallIsValidBankAccount

SpecCodec == CodecSpecInit /\ [][CodecNext]_vars

\* calls of fetchQRCode
FetchSpecInit == GenParked /\ CodecParked /\ FetchInit /\ SlipParked /\ PairParked /\ ApiParked

FetchNext ==
  \/ \E apt \in AptNumbers, size \in {QR_GENERATE_SIZE, DEFAULT_QR_SIZE} :
       FetchCall(apt, size)
  \/ \E net \in NetBehaviours : FetchReturn(net)

SpecFetch == FetchSpecInit /\ [][FetchNext]_vars

\* the contents of one slip
SlipNext ==
  \/ SlipGenerateReferenceNumber
  \/ SlipQRData
  \/ SlipDraw
  \/ SlipBilling

\* for every apartment number and month
SlipReferenceInit ==
  GenParked /\ CodecParked /\ FetchInit /\ ReferenceInit /\ PairParked /\ ApiParked

SpecReference == SlipReferenceInit /\ [][SlipNext]_vars

\* for amounts and recipient texts
SlipPayloadInit ==
  GenParked /\ CodecParked /\ FetchInit /\ PayloadInit /\ PairParked /\ ApiParked

SpecPayload == SlipPayloadInit /\ [][SlipNext]_vars

\* two calls of generatePaymentSlipsPDF in flight
PairSpecInit ==
  GenParked /\ CodecParked /\ FetchInit /\ SlipParked /\ PairInit /\ ApiParked

PairNext ==
  \/ \E c \in Calls : PairBegin(c)
  \/ \E c \in Calls, j \in 1..MaxPair + 1, net \in PairNets :
       PairFetchSettles(c, j, net)
  \/ \E c \in Calls : PairDraw(c)

SpecPair == PairSpecInit /\ [][PairNext]_vars

\* requests to PUT /api/building, one after another
BuildingSpecInit ==
  /\ GenParked /\ CodecParked /\ FetchInit /\ SlipParked /\ PairParked
  /\ deployment \in Deployments
  /\ BldInit
  /\ UsrParked
  /\ BilParked

BuildingNext ==
  \E body \in BankAccountBodies, asAdmin \in BOOLEAN, othersValid \in BOOLEAN :
    PutBuilding(body, asAdmin, othersValid)

SpecBuilding == BuildingSpecInit /\ [][BuildingNext]_vars

\* requests to /api/users/:id, at most two of them in flight
UsersSpecInit ==
  /\ GenParked /\ CodecParked /\ FetchInit /\ SlipParked /\ PairParked
  /\ deployment \in Deployments
  /\ BldParked
  /\ UsrInit
  /\ BilParked

UsersNext ==
  \/ \E s \in Slots, sender \in Users, target \in Users,
        method \in {"PUT", "DELETE"}, body \in UserBodies \cup {NoBody} :
       SendRequest(s, sender, method, target, body)
  \/ \E s \in Slots : Authenticate(s)
  \/ \E s \in Slots : BackendRun(s)
  \/ \E s \in Slots : WorkerStep(s)

SpecUsers == UsersSpecInit /\ [][UsersNext]_vars

\* requests to /api/billings
BillingSpecInit ==
  /\ GenParked /\ CodecParked /\ FetchInit /\ SlipParked /\ PairParked
  /\ deployment \in Deployments
  /\ BldParked
  /\ UsrParked
  /\ BilInit

BillingNext ==
  \/ \E id \in BillingRequests, kind \in {"generate", "delete"},
        period \in Periods : SendBilling(id, kind, period)
  \/ \E id \in BillingRequests : BackendBilling(id)
  \/ \E id \in BillingRequests : WorkerBilling(id)

SpecBilling == BillingSpecInit /\ [][BillingNext]_vars

(***************************************************************************)
(* Properties                                                              *)
(***************************************************************************)
N == Len(apartments)
Parsable == parseBankAccount(building.bank_account).ok
Started == pc \in {"map", "draw", "resolved", "rejected"}

RECURSIVE Flatten(_)
Flatten(pp) == IF pp = <<>> THEN <<>> ELSE Head(pp) \o Flatten(Tail(pp))

\* the slips on the canvas, in drawing order
Slips == Flatten(pages)

InputNumbers == {apartments[j].apartment_number : j \in 1..N}

\* C1: a non-empty list of N apartments gives ceil(N/3) pages; the i-th
\* apartment in sorted order (0-based) is drawn on page i div 3 in slot
\* i mod 3; doc.addPage() is called exactly at the indices i > 0 with
\* i mod 3 = 0.
C1_Pagination ==
  /\ pc \in {"draw", "resolved"} =>
       /\ Len(Slips) = i
       /\ \A idx \in 0..(i - 1) :
            /\ Len(pages) >= (idx \div 3) + 1
            /\ Len(pages[(idx \div 3) + 1]) >= (idx % 3) + 1
            /\ LET slip == pages[(idx \div 3) + 1][(idx % 3) + 1]
               IN  /\ slip.slipIndex = idx % 3
                   /\ slip.apartment_number =
                        sortedApartments[idx + 1].apartment_number
       /\ pageBreaks = {idx \in 0..(i - 1) : idx % 3 = 0 /\ idx > 0}
  /\ (pc = "resolved" /\ N > 0) =>
       /\ i = N
       /\ Len(result) = (N + 2) \div 3
       /\ 0 \notin pageBreaks
       /\ N \notin pageBreaks

C1_Witness ==
  /\ pc = "resolved"
  /\ N = 4
  /\ Len(result) = 2
  /\ pageBreaks = {3}

\* C2: the slips are drawn in strictly increasing apartment number, and the
\* drawn sequence depends only on the set of apartments handed in, not on
\* their order in the list.
C2_DrawnInAscendingOrder ==
  /\ \A a, b \in 1..Len(Slips) :
       a < b => Slips[a].apartment_number < Slips[b].apartment_number
  /\ pc = "resolved" =>
       [j \in 1..Len(Slips) |-> Slips[j].apartment_number]
         = Ascending(InputNumbers)

C2_Witness ==
  /\ pc = "resolved"
  /\ N >= 3
  /\ apartments[1].apartment_number > apartments[2].apartment_number
  /\ apartments[2].apartment_number < apartments[3].apartment_number

\* C3: whatever subset of the fetches fails and in whatever order they
\* settle, a failed fetch never rejects the call, the resolved document has
\* N slips, and a slip carries a QR image exactly when the fetch of its own
\* apartment succeeded; the image it carries is the one fetched for it.
C3_PartialFailureIsolation ==
  /\ pc = "rejected" => (~fontRegular \/ ~fontBold \/ ~Parsable)
  /\ pc = "resolved" =>
       /\ Len(Slips) = N
       /\ \A j \in 1..Len(Slips) :
            LET slip == Slips[j] IN
            /\ (slip.qr # Null) <=> (fetchOutcome[slip.apartment_number] = "ok")
            /\ (slip.qr = Null) <=> (fetchOutcome[slip.apartment_number] = "fail")
            /\ slip.qr # Null => slip.qr.png = slip.apartment_number

C3_Witness ==
  /\ pc = "resolved"
  /\ N >= 3
  /\ \E a, b \in InputNumbers :
       /\ a < b
       /\ fetchOutcome[a] = "fail"
       /\ fetchOutcome[b] = "ok"
  /\ \E j \in 1..Len(Slips) : Slips[j].qr = Null

C5_AccountErrorNeverBecomesNullQR ==
  (Started /\ N > 0 /\ ~Parsable) =>
    /\ pc # "resolved"
    /\ \A j \in 1..Len(qrCodes) : qrCodes[j] # Null

\* C6: every callback of the batch has been started before the first of
\* them resumes from its await, and nothing is drawn before every fetch of
\* the batch has settled.
C6_FanOutThenFanIn ==
  /\ (\E j \in 1..Len(cb) : cb[j] = "done") =>
       /\ k > Len(sortedApartments)
       /\ \A j \in 1..Len(cb) : cb[j] # "notstarted"
       /\ Parsable =>
            \A j \in 1..Len(cb) :
              requests[sortedApartments[j].apartment_number] >= 1
  /\ (pc \in {"draw", "resolved"} \/ Len(Slips) > 0) =>
       /\ \A j \in 1..Len(cb) : cb[j] = "done" /\ qrCodes[j] # NoValue
       /\ Parsable =>
            \A a \in InputNumbers : fetchOutcome[a] # "none"

C6_Witness ==
  /\ pc = "draw"
  /\ i = 1
  /\ N >= 3
  /\ \A a \in InputNumbers : requests[a] = 1 /\ fetchOutcome[a] # "none"

\* C7: at most one POST is issued per apartment, none for an apartment that
\* is not in the list, and none after the apartment's fetch has failed.
C7_AtMostOneRequestPerApartment ==
  /\ \A a \in AptNumbers :
       /\ requests[a] <= 1
       /\ a \notin InputNumbers => requests[a] = 0
       /\ fetchOutcome[a] # "none" => requests[a] = 1
  /\ \A j \in 1..Len(cb) :
       (cb[j] = "done" /\ qrCodes[j] = Null) =>
         requests[sortedApartments[j].apartment_number] <= 1

C7_Witness ==
  /\ pc = "resolved"
  /\ N >= 2
  /\ \A a \in InputNumbers : fetchOutcome[a] = "fail" /\ requests[a] = 1

\* C8 as stated: a call with a non-empty list and a parsable account is
\* never rejected.
C8_NeverRejected ==
  (N > 0 /\ Parsable) => pc # "rejected"

\* C8 amended: with both font files present, a non-empty list and a
\* parsable account, the call eventually resolves with all N slips whatever
\* the fetches do; and in every case a started call eventually settles.
C8_EventuallyReturns ==
  /\ (Started /\ N > 0 /\ Parsable /\ fontRegular /\ fontBold)
       ~> (pc = "resolved" /\ Len(Slips) = N /\ result = pages)
  /\ Started ~> (pc \in {"resolved", "rejected"})

C8_Witness ==
  /\ pc = "resolved"
  /\ N >= 2
  /\ result = pages
  /\ \E a, b \in InputNumbers :
       fetchOutcome[a] = "fail" /\ fetchOutcome[b] = "ok"

InMessage(msg, fragment) == \E j \in 1..Len(msg) : msg[j] = fragment

\* C9: fetchQRCode returns the image only for a response with a success
\* status; for a delivered non-success response it throws an error whose
\* message carries the status and the body after the marker
\* "NBS API error: "; for a transport failure it throws an error without
\* that marker.
C9_FetchOutcomes ==
  fqPc = "settled" =>
    /\ fqResult.ok =>
         /\ fqNet.kind = "response"
         /\ ResponseOk(fqNet.status)
         /\ fqResult.value = QRImage(fqRequest.qrData, fqRequest.size)
    /\ (fqNet.kind = "response" /\ ~ResponseOk(fqNet.status) /\ fqNet.bodyOk) =>
         /\ ~fqResult.ok
         /\ InMessage(fqResult.error, "NBS API error: ")
         /\ InMessage(fqResult.error, ToString(fqNet.status))
         /\ InMessage(fqResult.error, fqNet.body)
    /\ (fqNet.kind = "transport" \/ ~fqNet.bodyOk) =>
         /\ ~fqResult.ok
         /\ ~InMessage(fqResult.error, "NBS API error: ")
         /\ InMessage(fqResult.error, fqNet.errmsg)

C9_Witness ==
  /\ fqPc = "settled"
  /\ fqNet.kind = "response"
  /\ fqNet.status = 500
  /\ fqNet.bodyOk
  /\ ~fqResult.ok
  /\ InMessage(fqResult.error, "500")

IsCanonicalDigits(v) == v.t = "string" /\ Len(v.s) = 18 /\ AllDigits(v.s)

\* C10: for a string D of exactly 18 decimal digits, formatForQR returns D
\* unchanged, and parsing splits it into bank = D[0..3), account =
\* D[3..16), control = D[16..18).
C10_CanonicalRoundTrip ==
  IsCanonicalDigits(baInput) =>
    /\ baOp = "formatForQR" => baResult = Returned(baInput.s)
    /\ baOp = "parseBankAccount" =>
         /\ baResult.ok
         /\ baResult.bank = SubSeq(baInput.s, 1, 3)
         /\ baResult.account = SubSeq(baInput.s, 4, 16)
         /\ baResult.control = SubSeq(baInput.s, 17, 18)
         /\ baResult.digits = baInput.s

C10_Witness ==
  /\ IsCanonicalDigits(baInput)
  /\ baOp = "formatForQR"
  /\ baResult.ok
  /\ baInput.s[1] # baInput.s[2]

\* the digits left of a string once dashes and whitespace are removed
Stripped(v) == IF v.t = "string" THEN StripSeparators(v.s) ELSE <<>>

\* a string whose stripped form is 7 to 18 decimal digits
WellFormed(v) ==
  /\ v.t = "string"
  /\ AllDigits(Stripped(v))
  /\ Len(Stripped(v)) >= 7
  /\ Len(Stripped(v)) <= 18

\* C11: for an input whose stripped form d is 7 to 17 digits, parse
\* succeeds with bank = the first 3 digits of d, control = the last 2,
\* account = the digits in between behind as many zeros as make it 13
\* characters, and digits = bank, account, control: 18 characters; both
\* formatters succeed, formatForQR with those 18 digits.
C11_ShortFormPadding ==
  (WellFormed(baInput) /\ Len(Stripped(baInput)) <= 17) =>
    LET d == Stripped(baInput)
        n == Len(d)
        zeros == 13 - (n - 5)
    IN
    /\ baOp = "parseBankAccount" =>
         /\ baResult.ok
         /\ baResult.bank = SubSeq(d, 1, 3)
         /\ baResult.control = SubSeq(d, n - 1, n)
         /\ Len(baResult.account) = 13
         /\ \A j \in 1..zeros : baResult.account[j] = "0"
         /\ SubSeq(baResult.account, zeros + 1, 13) = SubSeq(d, 4, n - 2)
         /\ baResult.digits =
              baResult.bank \o baResult.account \o baResult.control
         /\ Len(baResult.digits) = 18
    /\ baOp = "formatForQR" =>
         /\ baResult.ok
         /\ Len(baResult.value) = 18
         /\ AllDigits(baResult.value)
    /\ baOp = "formatForDisplay" =>
         /\ baResult.ok
         /\ Len(baResult.value) = 20

C11_Witness ==
  /\ baOp = "parseBankAccount"
  /\ baInput.t = "string"
  /\ Len(baInput.s) > Len(Stripped(baInput))
  /\ Len(Stripped(baInput)) = 7
  /\ baResult.ok
  /\ baResult.account[12] = "0"
  /\ baResult.account[13] # "0"

C13_IsValidNeverThrows ==
  baOp = "isValidBankAccount" =>
    /\ baResult.ok
    /\ baResult.value \in BOOLEAN
    /\ baResult.value = WellFormed(baInput)
    /\ baResult.value = parseBankAccount(baInput).ok

C13_Witness ==
  /\ baOp = "isValidBankAccount"
  /\ baInput.t = "number"
  /\ baResult = Returned(FALSE)

\* the two decimal digits of a number below 100
TwoDigits(n) == <<DigitChar[(n \div 10) + 1], DigitChar[(n % 10) + 1]>>

IsReference(ref, n, m) ==
  /\ Len(ref) = 5
  /\ SubSeq(ref, 1, 2) = TwoDigits(n)
  /\ ref[3] \in {"/", "-"}
  /\ SubSeq(ref, 4, 5) = TwoDigits(m)

\* C14: for every apartment number 1..99 and month 1..12 the reference
\* number is 5 characters: the apartment number in two digits, one
\* delimiter, the month in two digits; this holds for the exported
\* function, the printed reference, the stored reference and the reference
\* generatePaymentQRCode builds, and separate calls with the same inputs
\* give the same text.
C14_ReferenceNumberFormat ==
  LET n == slApartment.apartment_number IN
  /\ slRef # NoRef => IsReference(slRef, n, slMonth)
  /\ slPrinted.printed => IsReference(slPrinted.reference, n, slMonth)
  /\ slBilling.stored => IsReference(slBilling.reference_number, n, slMonth)
  /\ slQR.ok => IsReference(slQR.referenceNumber, n, slMonth)
  /\ (slRef # NoRef /\ slPrinted.printed) => slRef = slPrinted.reference
  /\ (slRef # NoRef /\ slBilling.stored) => slRef = slBilling.reference_number

C14_Witness ==
  /\ slApartment.apartment_number = 7
  /\ slMonth = 12
  /\ slRef = <<"0", "7", "/", "1", "2">>
  /\ slBilling.stored
  /\ slPrinted.printed

\* the digits of a reference number
RemoveDelimiter(ref) == SelectSeq(ref, LAMBDA c : c \in Digit)

\* C15 as stated: the RO field of a slip's payload is the reference printed
\* on the slip without its delimiter, and the printed reference and the
\* reference handed to generateQRCodeData carry the same delimiter.
C15_OneDelimiter ==
  (slQR.ok /\ slPrinted.printed) =>
    /\ slQR.RO = RemoveDelimiter(slPrinted.reference)
    /\ slPrinted.reference[3] = slQR.referenceNumber[3]

RECURSIVE DecimalValue(_)
DecimalValue(d) ==
  IF d = <<>> THEN 0
  ELSE 10 * DecimalValue(SubSeq(d, 1, Len(d) - 1))
         + (CHOOSE v \in 0..9 : DigitChar[v + 1] = d[Len(d)])

\* "RSD", an integer part, a comma, two digits, and no period
IsAmountText(t) ==
  /\ Len(t) >= 7
  /\ SubSeq(t, 1, 3) = <<"R", "S", "D">>
  /\ AllDigits(SubSeq(t, 4, Len(t) - 3))
  /\ t[Len(t) - 2] = ","
  /\ AllDigits(SubSeq(t, Len(t) - 1, Len(t)))
  /\ \A j \in 1..Len(t) : t[j] # "."

\* the amount an amount text stands for, in hundredths
AmountTextValue(t) ==
  100 * DecimalValue(SubSeq(t, 4, Len(t) - 3))
    + DecimalValue(SubSeq(t, Len(t) - 1, Len(t)))

C17_RecipientCappedAt70 ==
  slQR # NoPayload =>
    LET full == slBuilding.recipient_name \o <<"\r", "\n">>
                  \o slBuilding.address
    IN
    /\ slQR.ok
    /\ Len(slQR.N) <= 70
    /\ Len(slQR.N) = Min(70, Len(full))
    /\ slQR.N = SubSeq(full, 1, Min(70, Len(full)))

C17_Witness ==
  /\ slQR.ok
  /\ Len(slBuilding.recipient_name) = 69
  /\ Len(slBuilding.address) = 12
  /\ Len(slQR.N) = 70
  /\ slQR.N[70] = "\r"

\* C18: the amount printed on the slip, the amount of the payload and the
\* stored billing amount are one and the same: the apartment's override
\* when it is a number other than zero, and the building's default amount
\* when the override is null or zero.
C18_OneResolvedAmount ==
  LET override == slApartment.override_amount
      expected == IF override.t = "number" /\ override # Num(0)
                  THEN override ELSE slBuilding.default_amount
  IN
  /\ slQR.ok => (slQR.amount = expected /\ slQR.I = formatAmount(expected))
  /\ slPrinted.printed => slPrinted.amount = expected
  /\ slBilling.stored => slBilling.amount = expected

C18_Witness ==
  /\ slApartment.override_amount = Num(0)
  /\ slBuilding.default_amount = Num(1200996)
  /\ slQR.ok
  /\ slPrinted.printed
  /\ slBilling.stored
  /\ slBilling.amount = Num(1200996)
  /\ slQR.I = <<"R", "S", "D", "1", "2", "0", "1", ",", "0", "0">>

MissingFontSafety ==
  /\ (Started /\ ~fontRegular) =>
       /\ pc = "rejected"
       /\ error = <<"Font file not found">>
       /\ pages = <<>>
       /\ result = NoDoc
       /\ \A a \in AptNumbers : requests[a] = 0 /\ fetchOutcome[a] = "none"
  /\ (Started /\ fontRegular /\ ~fontBold /\ N > 0) =>
       /\ pc # "resolved"
       /\ result = NoDoc
       /\ Len(Slips) = 0
       /\ pc = "rejected" => error = <<"ENOENT: Serbian-Bold">>
  /\ (pc = "resolved" /\ N > 0) => (fontRegular /\ fontBold)
  /\ (pc = "resolved" /\ ~fontBold) => (N = 0 /\ result = << <<>> >>)

C28_CutLineOnlyBetweenSlips ==
  pc = "resolved" =>
    \A p \in 1..Len(result) :
      \A sl \in 1..Len(result[p]) :
        result[p][sl].cutLine => sl + 1 <= Len(result[p])

\* the string without its dashes
RemoveDashes(str) == SelectSeq(str, LAMBDA c : c # "-")

\* C30: for every input accepted by parse, formatting the display form
\* again gives the same display form, formatForQR of the display form is
\* formatForQR of the input, and the display form without its dashes is
\* formatForQR of the input.
C30_NormalizationIdempotent ==
  (baOp = "formatForDisplay" /\ parseBankAccount(baInput).ok) =>
    /\ baResult.ok
    /\ formatForDisplay(JsStr(baResult.value)) = baResult
    /\ formatForQR(JsStr(baResult.value)) = formatForQR(baInput)
    /\ RemoveDashes(baResult.value) = formatForQR(baInput).value
    /\ formatForQR(JsStr(formatForQR(baInput).value)) = formatForQR(baInput)

C30_Witness ==
  /\ baOp = "formatForDisplay"
  /\ baInput.t = "string"
  /\ Len(Stripped(baInput)) = 11
  /\ Len(baInput.s) = 13
  /\ baResult.ok
  /\ Len(baResult.value) = 20
  /\ baResult.value # baInput.s

\* the pages a call returns when it runs alone with the given fetch outcomes
RECURSIVE AloneSlips(_, _, _)
AloneSlips(numbers, outcomeOf, idx) ==
  IF idx > Len(numbers) THEN <<>>
  ELSE << [apartment_number |-> numbers[idx],
           slipIndex |-> (idx - 1) % 3,
           account |-> formatForDisplay(PairBuilding.bank_account).value,
           qr |-> IF outcomeOf[numbers[idx]] = "ok"
                  THEN QRImage([payer |-> numbers[idx]], QR_GENERATE_SIZE)
                  ELSE Null,
           cutLine |-> (idx - 1) % 3 < 2] >>
       \o AloneSlips(numbers, outcomeOf, idx + 1)

AlonePages(slips) ==
  IF slips = <<>> THEN << <<>> >>
  ELSE [p \in 1..((Len(slips) + 2) \div 3) |->
          SubSeq(slips, 3 * (p - 1) + 1, Min(3 * p, Len(slips)))]

\* C21: whatever the other call does and however the two interleave, the
\* pages a call resolves with are those it produces alone from its own
\* list and its own fetch outcomes: its own apartments in ascending order,
\* three to a page, a QR image exactly on the slips whose own fetch
\* succeeded.
C21_ConcurrentCallsIndependent ==
  \A c \in Calls :
    gcPc[c] = "resolved" =>
      LET numbers == Ascending({gcList[c][j].apartment_number :
                                  j \in 1..Len(gcList[c])})
          outcomeOf == [a \in 1..Len(numbers) |-> gcOutcome[c][a]]
      IN  gcResult[c] = AlonePages(AloneSlips(numbers, outcomeOf, 1))

C21_Witness ==
  /\ gcPc[1] = "resolved"
  /\ gcPc[2] = "fetching"
  /\ Len(gcList[1]) = 4
  /\ Len(gcList[2]) = 2
  /\ gcList[2][1].apartment_number = 2
  /\ Len(gcResult[1]) = 2
  /\ gcOutcome[1] = <<"ok", "fail", "ok", "ok">>
  /\ gcOutcome[2] = <<"fail", "none">>

\* 3 digits, a dash, 13 digits, a dash, 2 digits
IsDashedCanonical(str) ==
  /\ Len(str) = 20
  /\ str[4] = "-"
  /\ str[18] = "-"
  /\ AllDigits(SubSeq(str, 1, 3) \o SubSeq(str, 5, 17) \o SubSeq(str, 19, 20))

\* C22: after any sequence of PUT /api/building requests, whatever they
\* were answered with, a stored bank account has the dashed 18-digit form,
\* parses, and is its own display form.
C22_StoredAccountCanonical ==
  bdStored # NoRow =>
    /\ bdStored.t = "string"
    /\ IsDashedCanonical(bdStored.s)
    /\ parseBankAccount(bdStored).ok
    /\ formatForDisplay(bdStored) = Returned(bdStored.s)

C22_Witness ==
  /\ deployment = "worker"
  /\ bdStatus = 200
  /\ bdBody.t = "string"
  /\ Len(bdBody.s) = 14
  /\ IsWhitespace(bdBody.s[1])
  /\ bdStored.t = "string"
  /\ Len(bdStored.s) = 20
  /\ RemoveDashes(bdStored.s) = formatForQR(bdBody).value

\* C23: at least one user with is_admin = 1 exists after any sequence and
\* any interleaving of user update and user delete requests.
C23_AdminAlwaysRemains ==
  \E u \in Users : usDb[u].present /\ usDb[u].is_admin

\* C24: a request of a user who is no admin changes nothing but the name
\* and the password of that user's own row.
C24_NonAdminChangesOwnProfileOnly ==
  \A s \in Slots : usReq[s].neverAdmin => ~usReq[s].beyondOwnProfile

\* C29: an admin's PUT whose body leaves is_admin out is not answered by
\* the last-admin guard and does not change the target's admin flag.
C29_OmittedIsAdminKeepsFlag ==
  \A s \in Slots :
    LET r == usReq[s]
    IN  (/\ r.pc = "done"
         /\ r.method = "PUT"
         /\ r.reqUser.is_admin
         /\ r.body.is_admin = Undefined) =>
          /\ r.answer # "lastAdmin"
          /\ ~r.changedAdminFlag

\* C27: a request sent with the token of a user whose row is gone changes
\* nothing and is answered 401; a DELETE sent by a user who is no admin in
\* the database (whatever the token says) changes nothing and is answered
\* 403, or 401 if the row is deleted before the request is authenticated; a
\* PUT of such a user on another user's row changes nothing.
C27_AuthorizationFromDatabase ==
  \A s \in Slots :
    LET r == usReq[s]
    IN  /\ (r.pc # "idle" /\ r.goneAtSend) =>
             /\ ~r.changed
             /\ r.pc = "done" => r.status = 401
        /\ (r.pc # "idle" /\ ~r.goneAtSend /\ r.neverAdmin
              /\ r.method = "DELETE") =>
             /\ ~r.changed
             /\ r.pc = "done" =>
                  \/ r.status = 403
                  \/ r.status = 401 /\ ~usDb[r.sender].present
        /\ (r.pc # "idle" /\ r.neverAdmin /\ r.method = "PUT"
              /\ r.target # r.sender) =>
             ~r.changed

C27_Witness ==
  \E s \in Slots :
    /\ usReq[s].pc = "done"
    /\ usReq[s].sender = 1
    /\ usReq[s].target = 2
    /\ usReq[s].method = "DELETE"
    /\ usReq[s].status = 403
    /\ usToken[1].is_admin
    /\ usDb[1].present
    /\ ~usDb[1].is_admin
    /\ usDb[2].present

\* the rows of an apartment for a month
RowsOf(db, apt, period) ==
  {row \in db : row.apartment_id = apt /\ row.period = period}

\* C25: when a generate request answers 201 every apartment has exactly
\* one billing row for that month; when it answers anything else no row it
\* inserted is left.
C25_GenerateAllOrNothing ==
  [][\A id \in BillingRequests :
       (/\ blReq[id].pc # "done"
        /\ blReq'[id].pc = "done"
        /\ blReq'[id].kind = "generate") =>
         IF blReq'[id].status = 201
         THEN \A a \in blApts :
                Cardinality(RowsOf(blDb', a, blReq'[id].period)) = 1
         ELSE \A row \in blDb' : row.by # id]_vars

Succeeded(r) == r.pc = "done" /\ r.kind = "generate" /\ r.status = 201

\* two generate requests for the same month that were in flight together
Concurrent(j, m) ==
  /\ j < m
  /\ blReq[j].kind = "generate"
  /\ blReq[m].kind = "generate"
  /\ blReq[m].pc # "idle"
  /\ blReq[j].period = blReq[m].period
  /\ j \in blReq[m].sentWith

OneRowEach ==
  \A a \in 1..MaxFlats, p \in Periods : Cardinality(RowsOf(blDb, a, p)) <= 1

\* C26 as stated: at most one row per apartment and month, and of two
\* concurrent generate requests for a month at most one answers 201.
C26_AtMostOneSucceeds ==
  /\ OneRowEach
  /\ \A j, m \in BillingRequests :
       Concurrent(j, m) => ~(Succeeded(blReq[j]) /\ Succeeded(blReq[m]))

\* C26 amended: at most one row per apartment and month, and of two
\* concurrent generate requests for a month at most one answers 201 unless
\* a DELETE of that month ran while one of them was in flight.
C26_AtMostOneSucceedsWithoutDelete ==
  /\ OneRowEach
  /\ \A j, m \in BillingRequests :
       (Concurrent(j, m) /\ ~blReq[j].deleted /\ ~blReq[m].deleted) =>
         ~(Succeeded(blReq[j]) /\ Succeeded(blReq[m]))

C26_Witness ==
  /\ deployment = "worker"
  /\ Concurrent(1, 2)
  /\ Succeeded(blReq[1])
  /\ blReq[2].pc = "done"
  /\ blReq[2].status = 500
  /\ ~blReq[1].deleted
  /\ ~blReq[2].deleted
  /\ Cardinality(blApts) = 2
  /\ Cardinality(blDb) = 2

====
